---- MODULE Spec2Model ----
(***************************************************************************)
(* RadarSys: the edge node (src/raspberry/radar_service.py) and the        *)
(* central manager (src/manager_server.py).                                *)
(*                                                                         *)
(* Units.  Time is counted in integer milliseconds; the sensor distance in *)
(* millimetres.  A speed is an exact rational [n, d] (n/d km/h), so that   *)
(* the comparisons of the code (> 200, > SPEED_LIMIT) are decided exactly. *)
(* The realtime event carries round(speed, 2), modelled in 1/100 km/h.     *)
(*                                                                         *)
(* Ghost state (not in the program, used to state properties): the field   *)
(* "a" of the armed slot and of a row (which A trigger armed it), the row  *)
(* field "dt", aTimes, consumed, ret, falhou, ciclo, poll_res, poll_ant.   *)
(***************************************************************************)
EXTENDS Integers, Sequences, FiniteSets, TLC

\* ----------------------------------------------------------------- bounds
MaxTicks == 3
MaxTrig == 3
MaxDet == 3
MaxCycles == 3
MaxScans == 2
MaxBulk == 2
MaxPolls == 3
MaxFeed == 201
MaxBusy == 51
MaxQuiet == 1
MaxNew == 3
MaxReq == 3
MaxRows == 102
MaxOrd == 8
MaxLag == 3

\* ------------------------------------------------------ program constants
SENSOR_DIST_MM == 1000
SPEED_LIMIT == 20
MAX_DELTA_MS == 10000
MAX_KMH == 200
REALTIME_MAX == 50
BATCH_LIMIT == 100

None == "None"
\* the empty armed slot (sensor_a_tempo = None); time.time() is never negative
NoTempo == [t |-> -1, a |-> 0]
Threads == {"t1", "t2"}
TickSteps == {-1, 18, 180, 10000}
\* a speed drawn by random.uniform(5, 45); no step of the store or of the sync
\* protocol reads it
SimSpeeds == {45}
\* rede.hosts() of a /30 range: its two usable addresses
Hosts == {1, 2}
MAX_VIVOS == 50
\* rede.hosts() of a /26 range: 62 addresses, none of which answers
LoadHosts == 62
\* api_eventos of a node serves its 20 newest realtime events
NODE_PAGE == 20
\* the fill levels of the live buffer at which a stream is observed
Fills == {0, 2, 199}
\* which rows of a stored table are already synchronized: none, the first, or
\* the second (the first was refused by the central store)
Marcas == {0, 1, 2}
\* node ids, in the order the registry dict holds them
IdOrder == <<"r1", "r2">>
Ids == {"r1", "r2"}
\* registries a manager_config.json left by an earlier run can hold
SavedRegistries ==
    {{},
     {[ip |-> 1, radar_id |-> "r1", radar_nome |-> "a"]},
     {[ip |-> 1, radar_id |-> "r1", radar_nome |-> "a"],
      [ip |-> 2, radar_id |-> "r2", radar_nome |-> "a"]}}
\* status codes chamar_radar returns for a configure call: accepted,
\* refused by the node, no answer (exception or timeout: 0)
BulkCodes == {200, 401, 0}
\* no entry under that key
NoCode == -1
\* what a node answers to GET /api/status through chamar_radar: 200 with its
\* status object (of which the name is kept), another status, or no answer (0)
StatusRespostas ==
    {[code |-> 200, radar_nome |-> "a"], [code |-> 200, radar_nome |-> "b"],
     [code |-> 500, radar_nome |-> ""], [code |-> 0, radar_nome |-> ""]}
\* what a node answers to GET /api/eventos: its newest events first (uuids)
EvRespostas ==
    {[code |-> 200, evts |-> <<>>], [code |-> 200, evts |-> <<1>>],
     [code |-> 200, evts |-> <<2, 1>>], [code |-> 0, evts |-> <<>>]}
EVENTOS_MAX == 200
DEDUP_JANELA == 50
PAGINA_MAX == 5

\* the running configuration of the edge node, as the text api_configurar writes
API_TOKEN == "mude-este-token"
RunningEnv == [api_token |-> API_TOKEN, sensor_dist_m |-> "1.0",
               speed_limit |-> "20.0", pg_host |-> ""]
EnvKeys == {"api_token", "sensor_dist_m", "speed_limit", "pg_host"}
\* bearer tokens presented by a caller ("" is a request without the header)
Tokens == {API_TOKEN, "errado", "novo", ""}
\* JSON bodies of a configure request: the empty body and two partial bodies
Payloads == {<<>>, [speed_limit |-> "30.0"], [api_token |-> "novo"]}
\* what request.get_json() gives for the body of a configure request: nothing
\* (no JSON body), None (the body null), or a JSON object, list or string;
\* vazio tells the values that are false for "not dados"
CorpoNenhum == [tipo |-> "ausente", vazio |-> TRUE, dados |-> <<>>]
Corpos ==
    {CorpoNenhum, [tipo |-> "null", vazio |-> TRUE, dados |-> <<>>]}
    \cup {[tipo |-> "objeto", vazio |-> (DOMAIN p = {}), dados |-> p] : p \in Payloads}
    \cup {[tipo |-> t, vazio |-> v, dados |-> <<>>] :
             t \in {"lista", "texto"}, v \in BOOLEAN}

VARIABLES
    now,               \* time.time(), in ms
    ticks,             \* number of clock steps taken (bounded)
    sensor_a_tempo,    \* the armed slot: NoTempo or [t, a]
    sensor_lock,       \* None or the thread holding sensor_lock
    pc,                \* position of each callback thread
    loc,               \* locals of each callback thread
    ret,               \* ghost: how the last callback of each thread ended
    aTimes,            \* ghost: time recorded by each A trigger, in order
    consumed,          \* ghost: the A triggers read by a B trigger, in order
    nTrig,             \* number of callbacks invoked (bounded)
    deteccoes,         \* local SQLite table deteccoes, in id order
    eventos_realtime,  \* edge realtime buffer
    pg_up,             \* the central PostgreSQL accepts connections
    central,           \* committed rows of radar_deteccoes (their uuids)
    spc,               \* position of the sync thread
    pendentes,         \* batch selected by the running cycle
    idx,               \* loop index into pendentes
    enviados,          \* uuids whose INSERT returned without exception
    tx,                \* rows inserted by the open central transaction
    txstate,           \* "ok", "aborted" (failed statement) or "broken"
    falhou,            \* ghost: uuids whose own INSERT failed in this cycle
    ciclo,             \* ghost: how the last cycle ended
    nCycles,           \* number of cycles started (bounded)
    env_file,          \* /etc/radar/.env as written by api_configurar: its lines
    reinicio,          \* TRUE once api_reiniciar has started its _reiniciar thread
    pedido,            \* ghost: the last request to the node's API and its status code
    nReq,              \* ghost: the number of requests recorded
    radares_conhecidos, \* manager registry config["radares_conhecidos"]: its entries
    scan_pc,           \* position of the thread running escanear_rede
    scan_n,            \* number of scans started; the running scan is scan_n
    scan_i,            \* hosts of the range whose probe thread was started
    scan_j,            \* index of the thread being joined
    threads,           \* per host: position and result r of its checar_ip thread
    encontrados,       \* the list encontrados of the scan
    lock,              \* 0 or the host whose thread holds the lock of the scan
    retorno,           \* whether the scan returned, and the list it returned
    vivos,             \* scan of a silent range: number of its threads alive
    bulk_pc,           \* position of the thread running api_configurar_todos
    bulk_ids,          \* node ids it started a thread for, in order
    bulk_th,           \* per node id: position of its enviar thread
    resultados,        \* the dict resultados: status code per node id, or NoCode
    bulk_j,            \* index of the thread being joined
    bulk_ret,          \* whether the request returned, and the map returned
    nBulk,             \* number of bulk requests taken (bounded)
    status_radares,    \* the cache status_radares: its entries, one per key
    eventos_recentes,  \* the manager's live buffer, newest first (uuids)
    poll_pc,           \* position of the loop_polling thread
    poll_snap,         \* list(config["radares_conhecidos"].items()) of the cycle
    poll_k,            \* index into poll_snap
    poll_res,          \* ghost: outcome of this cycle's status probe per node
    poll_ant,          \* ghost: the outcomes of the cycle before
    nPoll,             \* number of poll cycles started (bounded)
    rm,                \* "" or the node id api_radar_remover is removing
    feed,              \* per node: number of realtime events it has produced
    visto,             \* per node: the value of feed when it was last polled
    eventos_lock,      \* "" or the holder of the manager's eventos_lock
    sub_pc,            \* position of the generator gerar of a stream client
    ultimo_tamanho,    \* its local ultimo_tamanho
    fila,              \* events of the running "for ev" loop, from the current one
    entregues,         \* ghost: the data events the client was sent, in order
    desde,             \* ghost: the number of events appended when it attached
    inicio             \* the number of events appended when the observation starts

sensorVars == <<now, ticks, sensor_a_tempo, sensor_lock, pc, loc, ret, aTimes,
                consumed, nTrig>>
storeVars == <<deteccoes, eventos_realtime>>
syncVars == <<pg_up, central, spc, pendentes, idx, enviados, tx, txstate,
              falhou, ciclo, nCycles>>
apiLog == <<pedido, nReq>>
apiVars == <<env_file, reinicio, apiLog>>
scanVars == <<scan_pc, scan_n, scan_i, scan_j, threads, encontrados, lock, retorno>>
loadVars == <<vivos>>
bulkVars == <<bulk_pc, bulk_ids, bulk_th, resultados, bulk_j, bulk_ret, nBulk>>
pollVars == <<status_radares, eventos_recentes, poll_pc, poll_snap, poll_k,
              poll_res, poll_ant, nPoll, rm>>
pollRest == <<status_radares, poll_pc, poll_snap, poll_k, poll_res, poll_ant,
              nPoll, rm>>
feedVars == <<feed, visto>>
streamVars == <<eventos_lock, sub_pc, ultimo_tamanho, fila, entregues, desde, inicio>>
mgrVars == <<radares_conhecidos, scanVars, loadVars, bulkVars, pollVars, feedVars,
             streamVars>>
restVars == <<apiVars, mgrVars>>
edgeVars == <<sensorVars, storeVars, syncVars, apiVars>>
nonScanVars == <<edgeVars, loadVars, bulkVars, pollVars, feedVars, streamVars>>
nonLoadVars == <<edgeVars, bulkVars, pollVars, feedVars, streamVars>>
nonBulkVars == <<edgeVars, scanVars, loadVars, pollVars, feedVars, streamVars>>
nonPollVars == <<edgeVars, scanVars, loadVars, bulkVars, feedVars, streamVars>>
nonFeedVars == <<edgeVars, radares_conhecidos, scanVars, loadVars, bulkVars, pollRest>>
vars == <<sensorVars, storeVars, syncVars, restVars>>

\* ---------------------------------------------------------------- helpers
Range(s) == {s[i] : i \in 1..Len(s)}

\* r > k for a rational r with r.d > 0
GT(r, k) == r.n > k * r.d

\* round(r, 2), in 1/100 km/h
Round2(r) == (200 * r.n + r.d) \div (2 * r.d)

NoLoc == [delta |-> 0, a |-> 0, vel |-> [n |-> 0, d |-> 1], uid |-> 0]
NoRet == [res |-> "none", why |-> "none"]

\* ============================================================ DetectionStore
\* uuid.uuid4(): a fresh identifier
NovoUuid == Len(deteccoes) + 1

AcimaGE(v) == v.n >= SPEED_LIMIT * v.d
\* velocidade > SPEED_LIMIT
Acima(v) == GT(v, SPEED_LIMIT)

\* the row inserted by salvar_deteccao (sincronizado DEFAULT 0)
NovaLinha(uid, v, dt, a) ==
    [uuid |-> uid, velocidade |-> v, acima_limite |-> Acima(v),
     sincronizado |-> FALSE, dt |-> dt, a |-> a]

\* adicionar_evento_realtime: append, drop the oldest beyond 50
AdicionarEventoRealtime(buf, ev) ==
    LET b == Append(buf, ev)
    IN IF Len(b) > REALTIME_MAX THEN Tail(b) ELSE b

Evento(uid, v) ==
    [uuid |-> uid, velocidade |-> Round2(v), limite |-> SPEED_LIMIT,
     acima_limite |-> Acima(v)]

\* =============================================================== SensorTimer
LockFreeNoMutex == TRUE
\* "with sensor_lock:" blocks while another thread holds the lock
LockFree == sensor_lock = None

SlotVazioNever == FALSE
\* "if sensor_a_tempo is None"
SlotVazio == sensor_a_tempo = NoTempo

NovoTempoAKeepFirst == IF sensor_a_tempo = NoTempo THEN now ELSE sensor_a_tempo.t
\* "sensor_a_tempo = time.time()": the new value of the slot
NovoTempoA == now

SlotAposLeituraKept == sensor_a_tempo
\* "sensor_a_tempo = None" after delta_t was computed
SlotAposLeitura == NoTempo

IntervaloInvalidoNoZero(dt) == dt < 0 \/ dt > MAX_DELTA_MS
\* "if delta_t <= 0 or delta_t > 10"
IntervaloInvalido(dt) == dt <= 0 \/ dt > MAX_DELTA_MS

VelocidadeKmhDivide(dt) == [n |-> SENSOR_DIST_MM * 10, d |-> dt * 36]
\* velocidade_ms = SENSOR_DIST_M / delta_t; velocidade_kmh = velocidade_ms * 3.6
VelocidadeKmh(dt) ==
    LET velocidade_ms == [n |-> SENSOR_DIST_MM, d |-> dt]
    IN [n |-> velocidade_ms.n * 36, d |-> velocidade_ms.d * 10]

\* "if velocidade_kmh > 200"
Absurda(v) == GT(v, MAX_KMH)

\* time.time() moves (it is the wall clock: it may also step back)
Tick ==
    /\ ticks < MaxTicks
    /\ \E d \in TickSteps :
        /\ now + d >= 0
        /\ now' = now + d
    /\ ticks' = ticks + 1
    /\ UNCHANGED <<sensor_a_tempo, sensor_lock, pc, loc, ret, aTimes, consumed, nTrig>>
    /\ UNCHANGED <<storeVars, syncVars>>
    /\ UNCHANGED restVars

ReturnSemSoltar(t, res, why) ==
    /\ pc' = [pc EXCEPT ![t] = "idle"]
    /\ loc' = [loc EXCEPT ![t] = NoLoc]
    /\ ret' = [ret EXCEPT ![t] = [res |-> res, why |-> why]]
    /\ sensor_lock' = sensor_lock
\* leaving the "with sensor_lock:" block, by return or by exception
Return(t, res, why) ==
    /\ pc' = [pc EXCEPT ![t] = "idle"]
    /\ loc' = [loc EXCEPT ![t] = NoLoc]
    /\ ret' = [ret EXCEPT ![t] = [res |-> res, why |-> why]]
    /\ sensor_lock' = None

\* the GPIO edge on pin A invokes callback_sensor_a
ACall(t) ==
    /\ pc[t] = "idle"
    /\ nTrig < MaxTrig
    /\ nTrig' = nTrig + 1
    /\ pc' = [pc EXCEPT ![t] = "a_wait"]
    /\ ret' = [ret EXCEPT ![t] = NoRet]
    /\ UNCHANGED <<now, ticks, sensor_a_tempo, sensor_lock, loc, aTimes, consumed>>
    /\ UNCHANGED <<storeVars, syncVars>>
    /\ UNCHANGED restVars

AAcquire(t) ==
    /\ pc[t] = "a_wait"
    /\ LockFree
    /\ sensor_lock' = t
    /\ pc' = [pc EXCEPT ![t] = "a_set"]
    /\ UNCHANGED <<now, ticks, sensor_a_tempo, loc, ret, aTimes, consumed, nTrig>>
    /\ UNCHANGED <<storeVars, syncVars>>
    /\ UNCHANGED restVars

ASet(t) ==
    /\ pc[t] = "a_set"
    /\ sensor_a_tempo' = [t |-> NovoTempoA, a |-> Len(aTimes) + 1]
    /\ aTimes' = Append(aTimes, now)
    /\ Return(t, "ok", "armed")
    /\ UNCHANGED <<now, ticks, consumed, nTrig>>
    /\ UNCHANGED <<storeVars, syncVars>>
    /\ UNCHANGED restVars

\* the GPIO edge on pin B invokes callback_sensor_b
BCall(t) ==
    /\ pc[t] = "idle"
    /\ nTrig < MaxTrig
    /\ nTrig' = nTrig + 1
    /\ pc' = [pc EXCEPT ![t] = "b_wait"]
    /\ ret' = [ret EXCEPT ![t] = NoRet]
    /\ UNCHANGED <<now, ticks, sensor_a_tempo, sensor_lock, loc, aTimes, consumed>>
    /\ UNCHANGED <<storeVars, syncVars>>
    /\ UNCHANGED restVars

BAcquire(t) ==
    /\ pc[t] = "b_wait"
    /\ LockFree
    /\ sensor_lock' = t
    /\ pc' = [pc EXCEPT ![t] = "b_check"]
    /\ UNCHANGED <<now, ticks, sensor_a_tempo, loc, ret, aTimes, consumed, nTrig>>
    /\ UNCHANGED <<storeVars, syncVars>>
    /\ UNCHANGED restVars

\* lines 304-306
BCheck(t) ==
    /\ pc[t] = "b_check"
    /\ IF SlotVazio
       THEN Return(t, "ok", "idle")
       ELSE /\ pc' = [pc EXCEPT ![t] = "b_read"]
            /\ UNCHANGED <<loc, ret, sensor_lock>>
    /\ UNCHANGED <<now, ticks, sensor_a_tempo, aTimes, consumed, nTrig>>
    /\ UNCHANGED <<storeVars, syncVars>>
    /\ UNCHANGED restVars

\* line 308: delta_t = time.time() - sensor_a_tempo (TypeError on None)
BRead(t) ==
    /\ pc[t] = "b_read"
    /\ IF sensor_a_tempo = NoTempo
       THEN /\ Return(t, "raise", "TypeError")
            /\ UNCHANGED consumed
       ELSE /\ loc' = [loc EXCEPT ![t].delta = now - sensor_a_tempo.t,
                                  ![t].a = sensor_a_tempo.a]
            /\ consumed' = Append(consumed, sensor_a_tempo.a)
            /\ pc' = [pc EXCEPT ![t] = "b_clear"]
            /\ UNCHANGED <<ret, sensor_lock>>
    /\ UNCHANGED <<now, ticks, sensor_a_tempo, aTimes, nTrig>>
    /\ UNCHANGED <<storeVars, syncVars>>
    /\ UNCHANGED restVars

\* line 309
BClear(t) ==
    /\ pc[t] = "b_clear"
    /\ sensor_a_tempo' = SlotAposLeitura
    /\ pc' = [pc EXCEPT ![t] = "b_valid"]
    /\ UNCHANGED <<now, ticks, sensor_lock, loc, ret, aTimes, consumed, nTrig>>
    /\ UNCHANGED <<storeVars, syncVars>>
    /\ UNCHANGED restVars

\* lines 311-319 (the division raises ZeroDivisionError when delta_t = 0)
BValidate(t) ==
    /\ pc[t] = "b_valid"
    /\ LET dt == loc[t].delta
       IN IF IntervaloInvalido(dt)
          THEN Return(t, "ok", "intervalo")
          ELSE IF dt = 0
          THEN Return(t, "raise", "ZeroDivisionError")
          ELSE IF Absurda(VelocidadeKmh(dt))
          THEN Return(t, "ok", "velocidade")
          ELSE /\ loc' = [loc EXCEPT ![t].vel = VelocidadeKmh(dt)]
               /\ pc' = [pc EXCEPT ![t] = "b_save"]
               /\ UNCHANGED <<ret, sensor_lock>>
    /\ UNCHANGED <<now, ticks, sensor_a_tempo, aTimes, consumed, nTrig>>
    /\ UNCHANGED <<storeVars, syncVars>>
    /\ UNCHANGED restVars

\* line 322: salvar_deteccao commits the row, or raises (sqlite3.Error)
BSave(t) ==
    /\ pc[t] = "b_save"
    /\ \E ok \in BOOLEAN :
        IF ok
        THEN /\ deteccoes' = Append(deteccoes,
                    NovaLinha(NovoUuid, loc[t].vel, loc[t].delta, loc[t].a))
             /\ loc' = [loc EXCEPT ![t].uid = NovoUuid]
             /\ pc' = [pc EXCEPT ![t] = "b_emit"]
             /\ UNCHANGED <<ret, sensor_lock>>
        ELSE /\ Return(t, "raise", "sqlite")
             /\ UNCHANGED deteccoes
    /\ UNCHANGED <<now, ticks, sensor_a_tempo, aTimes, consumed, nTrig>>
    /\ UNCHANGED <<eventos_realtime, syncVars>>
    /\ UNCHANGED restVars

\* lines 324-334
BEmit(t) ==
    /\ pc[t] = "b_emit"
    /\ eventos_realtime' =
          AdicionarEventoRealtime(eventos_realtime, Evento(loc[t].uid, loc[t].vel))
    /\ Return(t, "ok", "emitido")
    /\ UNCHANGED <<now, ticks, sensor_a_tempo, aTimes, consumed, nTrig>>
    /\ UNCHANGED <<deteccoes, syncVars>>
    /\ UNCHANGED restVars

\* ================================================== simulation mode (no GPIO)
\* one round of simular_deteccoes: salvar_deteccao, then the realtime event
Simular ==
    /\ Len(deteccoes) < MaxDet
    /\ \E k \in SimSpeeds :
        LET v == [n |-> k, d |-> 1]
        IN /\ deteccoes' = Append(deteccoes, NovaLinha(NovoUuid, v, 0, 0))
           /\ eventos_realtime' =
                 AdicionarEventoRealtime(eventos_realtime, Evento(NovoUuid, v))
    /\ UNCHANGED <<sensorVars, syncVars>>
    /\ UNCHANGED restVars

\* ================================================================= SyncAgent
SelectPendSemLimite(rows, n) == SelectSeq(rows, LAMBDA r : ~r.sincronizado)
\* SELECT * FROM deteccoes WHERE sincronizado = 0 ORDER BY id LIMIT n
SelectPend(rows, n) ==
    LET pend == SelectSeq(rows, LAMBDA r : ~r.sincronizado)
    IN SubSeq(pend, 1, IF Len(pend) < n THEN Len(pend) ELSE n)

NaoSincronizadasUma == SelectPend(deteccoes, 1)
\* get_deteccoes_nao_sincronizadas
NaoSincronizadas == SelectPend(deteccoes, BATCH_LIMIT)

MarcarSincronizadoReset(rows, uuids) ==
    [i \in 1..Len(rows) |->
        [rows[i] EXCEPT !.sincronizado = (rows[i].uuid \in Range(uuids))]]
\* marcar_sincronizado: UPDATE deteccoes SET sincronizado = 1 WHERE uuid = ?
MarcarSincronizado(rows, uuids) ==
    [i \in 1..Len(rows) |->
        IF rows[i].uuid \in Range(uuids)
        THEN [rows[i] EXCEPT !.sincronizado = TRUE]
        ELSE rows[i]]

PgConflictNever(u) == FALSE
\* ON CONFLICT (uuid): a row with this uuid exists, committed or in this transaction
PgConflict(u) == u \in Range(central) \cup Range(tx)

\* INSERT ... ON CONFLICT (uuid) DO NOTHING, inside the open transaction
PgInsert(u) == IF PgConflict(u) THEN tx ELSE Append(tx, u)

\* COMMIT: a healthy transaction is applied; a transaction in which a statement
\* failed is rolled back by the server, and commit() returns without exception
PgCommit == IF txstate = "ok" THEN central \o tx ELSE central

\* what an INSERT that fails of its own can be: an exception raised before the
\* statement is sent ("client"), a statement the server rejects ("server": the
\* transaction is aborted), a lost connection ("conn")
FailKinds == {"client", "server", "conn"}

\* the end of sincronizar_com_central, by return or through "except Exception"
EndCycle(how) ==
    /\ spc' = "idle"
    /\ ciclo' = how
    /\ pendentes' = <<>>
    /\ idx' = 0
    /\ enviados' = <<>>
    /\ tx' = <<>>
    /\ txstate' = "ok"
    /\ falhou' = {}

\* the central store goes down or comes back
PgToggle ==
    /\ spc = "idle"
    /\ pg_up' = ~pg_up
    /\ UNCHANGED <<central, spc, pendentes, idx, enviados, tx, txstate, falhou,
                   ciclo, nCycles>>
    /\ UNCHANGED <<sensorVars, storeVars>>
    /\ UNCHANGED restVars

\* lines 221-223
SyncStart ==
    /\ spc = "idle"
    /\ nCycles < MaxCycles
    /\ nCycles' = nCycles + 1
    /\ IF NaoSincronizadas = <<>>
       THEN EndCycle("vazio")
       ELSE /\ pendentes' = NaoSincronizadas
            /\ spc' = "connect"
            /\ ciclo' = "running"
            /\ UNCHANGED <<idx, enviados, tx, txstate, falhou>>
    /\ UNCHANGED <<pg_up, central>>
    /\ UNCHANGED <<sensorVars, storeVars>>
    /\ UNCHANGED restVars

GetPgConnectionAlways == TRUE
\* get_pg_connection() is not None: PG_HOST is set and psycopg2.connect succeeds
GetPgConnection == pg_up

\* lines 225-228
SyncConnect ==
    /\ spc = "connect"
    /\ IF GetPgConnection
       THEN /\ spc' = "ensure"
            /\ UNCHANGED <<ciclo, pendentes, idx, enviados, tx, txstate, falhou>>
       ELSE EndCycle("sem_pg")
    /\ UNCHANGED <<pg_up, central, nCycles>>
    /\ UNCHANGED <<sensorVars, storeVars>>
    /\ UNCHANGED restVars

\* lines 231-233 (garantir_tabela_pg raises: line 258)
SyncEnsure ==
    /\ spc = "ensure"
    /\ \E ok \in BOOLEAN :
        IF ok
        THEN /\ spc' = "loop"
             /\ idx' = 1
             /\ UNCHANGED <<ciclo, pendentes, enviados, tx, txstate, falhou>>
        ELSE EndCycle("erro")
    /\ UNCHANGED <<pg_up, central, nCycles>>
    /\ UNCHANGED <<sensorVars, storeVars>>
    /\ UNCHANGED restVars

\* lines 235-249: one round of the loop
SyncInsert ==
    /\ spc = "loop"
    /\ idx <= Len(pendentes)
    /\ idx' = idx + 1
    /\ LET u == pendentes[idx].uuid
       IN IF txstate # "ok"
          THEN \* InFailedSqlTransaction / connection already closed: caught
               UNCHANGED <<tx, txstate, enviados, falhou>>
          ELSE \/ /\ tx' = PgInsert(u)
                  /\ enviados' = Append(enviados, u)
                  /\ UNCHANGED <<txstate, falhou>>
               \/ \E k \in FailKinds :
                     /\ txstate' = CASE k = "client" -> "ok"
                                     [] k = "server" -> "aborted"
                                     [] k = "conn" -> "broken"
                     /\ falhou' = falhou \cup {u}
                     /\ UNCHANGED <<tx, enviados>>
    /\ UNCHANGED <<pg_up, central, spc, pendentes, ciclo, nCycles>>
    /\ UNCHANGED <<sensorVars, storeVars>>
    /\ UNCHANGED restVars

\* lines 251-252: pg.commit(); it raises on a lost connection, and a commit
\* whose acknowledgement is lost may have been applied
SyncCommit ==
    /\ spc = "loop"
    /\ idx > Len(pendentes)
    /\ \/ /\ txstate # "broken"
          /\ central' = PgCommit
          /\ spc' = "mark"
          /\ UNCHANGED <<ciclo, pendentes, idx, enviados, tx, txstate, falhou>>
       \/ /\ txstate = "broken"
          /\ EndCycle("erro")
          /\ UNCHANGED central
       \/ /\ txstate = "ok"
          /\ \E applied \in BOOLEAN :
                central' = IF applied THEN PgCommit ELSE central
          /\ EndCycle("erro")
    /\ UNCHANGED <<pg_up, nCycles>>
    /\ UNCHANGED <<sensorVars, storeVars>>
    /\ UNCHANGED restVars

UuidsDaTabela == [i \in 1..Len(deteccoes) |-> deteccoes[i].uuid]
\* line 255: the argument of marcar_sincronizado is the list enviados
UuidsAMarcar == enviados

\* lines 254-256: marcar_sincronizado commits, or raises (line 258)
SyncMark ==
    /\ spc = "mark"
    /\ IF enviados = <<>>
       THEN EndCycle("completo") /\ UNCHANGED deteccoes
       ELSE \E ok \in BOOLEAN :
               IF ok
               THEN /\ deteccoes' = MarcarSincronizado(deteccoes, UuidsAMarcar)
                    /\ EndCycle("completo")
               ELSE EndCycle("erro") /\ UNCHANGED deteccoes
    /\ UNCHANGED <<pg_up, central, nCycles>>
    /\ UNCHANGED <<sensorVars, eventos_realtime>>
    /\ UNCHANGED restVars

\* dict.get(key, default)
Get(d, k, default) == IF k \in DOMAIN d THEN d[k] ELSE default

TokenDoArquivo == IF env_file = {} THEN API_TOKEN
                  ELSE (CHOOSE l \in env_file : l[1] = "api_token")[2]
\* the API_TOKEN of the running process, read once when the module is loaded
TokenEmUso == API_TOKEN

AutorizadoSempre(token) == TRUE
\* requer_token: the bearer token must equal the running API_TOKEN
Autorizado(token) == token = TokenEmUso

\* the lines api_configurar writes: each key from the body, else the RUNNING value
Linhas(dados) == {<<k, Get(dados, k, RunningEnv[k])>> : k \in EnvKeys}

\* the status code of api_configurar: 401 from requer_token; 400 for no body
\* and for a body that is false; a body that is not an object makes dados.get
\* raise AttributeError, which Flask answers with 500; else 200
ConfigurarCode(token, corpo) ==
    IF ~Autorizado(token) THEN 401
    ELSE IF corpo.vazio THEN 400
    ELSE IF corpo.tipo # "objeto" THEN 500
    ELSE 200

\* api_configurar: on 200 the file is rewritten whole, else it is not touched;
\* the table deteccoes and the running values are not touched
ApiConfigurar(token, corpo) ==
    /\ env_file' = IF ConfigurarCode(token, corpo) = 200
                   THEN Linhas(corpo.dados) ELSE env_file
    /\ UNCHANGED reinicio
    /\ UNCHANGED <<sensorVars, storeVars, syncVars, mgrVars>>

\* api_reiniciar: behind requer_token, starts the thread that restarts the
\* service one second later
ApiReiniciar(token) ==
    /\ reinicio' = (reinicio \/ Autorizado(token))
    /\ UNCHANGED env_file
    /\ UNCHANGED <<sensorVars, storeVars, syncVars, mgrVars>>

\* the request and its status code are recorded
Registrar(rota, token, corpo, code) ==
    /\ nReq < MaxReq
    /\ nReq' = nReq + 1
    /\ pedido' = [rota |-> rota, token |-> token, corpo |-> corpo, code |-> code]

PedirConfigurar(token, corpo) ==
    /\ Registrar("configurar", token, corpo, ConfigurarCode(token, corpo))
    /\ ApiConfigurar(token, corpo)

PedirReiniciar(token) ==
    /\ Registrar("reiniciar", token, CorpoNenhum, IF Autorizado(token) THEN 200 ELSE 401)
    /\ ApiReiniciar(token)

\* api_status, api_eventos and api_deteccoes: behind requer_token, they read
PedirLeitura(rota, token) ==
    /\ Registrar(rota, token, CorpoNenhum, IF Autorizado(token) THEN 200 ELSE 401)
    /\ UNCHANGED <<env_file, reinicio>>
    /\ UNCHANGED <<sensorVars, storeVars, syncVars, mgrVars>>

\* api_ping: no requer_token
PedirPing(token) ==
    /\ Registrar("ping", token, CorpoNenhum, 200)
    /\ UNCHANGED <<env_file, reinicio>>
    /\ UNCHANGED <<sensorVars, storeVars, syncVars, mgrVars>>

\* api_status: the counts it reports
CountAll(rows) == Len(rows)
\* SELECT COUNT(*) FROM deteccoes WHERE sincronizado = 0
CountPendentes(rows) == Cardinality({i \in 1..Len(rows) : ~rows[i].sincronizado})
ApiStatus == [total_deteccoes |-> Len(deteccoes),
              pendentes_sync |-> CountPendentes(deteccoes),
              postgresql_conectado |-> GetPgConnection]

\* api_deteccoes: SELECT * FROM deteccoes ORDER BY id DESC LIMIT n
ApiDeteccoes(n) ==
    [i \in 1..(IF n < Len(deteccoes) THEN n ELSE Len(deteccoes)) |->
        deteccoes[Len(deteccoes) + 1 - i]]

\* ================================================================== Manager
\* what an address answers to GET /api/ping: status code (0: no answer, an
\* exception or a timeout in requests.get), service tag, node id and name
Respostas ==
    {[code |-> 200, servico |-> "radar", radar_id |-> "r1", radar_nome |-> "a"],
     [code |-> 200, servico |-> "radar", radar_id |-> "r1", radar_nome |-> "b"],
     [code |-> 200, servico |-> "radar", radar_id |-> "r2", radar_nome |-> "a"],
     [code |-> 200, servico |-> "outro", radar_id |-> "", radar_nome |-> ""],
     [code |-> 500, servico |-> "radar", radar_id |-> "r1", radar_nome |-> "a"],
     [code |-> 0, servico |-> "", radar_id |-> "", radar_nome |-> ""]}

\* descobrir_radar returning None
NoDesc == [ip |-> 0, radar_id |-> "", radar_nome |-> ""]

\* the accepted answer is 200 with servico = "radar"
Qualifica(resp) == resp.code = 200 /\ resp.servico = "radar"

\* descobrir_radar: {"ip": ip, **dados} for an accepted answer, else None
DescobrirRadar(ip, resp) ==
    IF Qualifica(resp)
    THEN [ip |-> ip, radar_id |-> resp.radar_id, radar_nome |-> resp.radar_nome]
    ELSE NoDesc

RegAppend(reg, r) == reg \cup {r}
\* config["radares_conhecidos"][id] = {...}: the entry of that key is replaced
\* (descoberto_em, a wall-clock stamp, is left out)
RegSet(reg, r) == {e \in reg : e.radar_id # r.radar_id} \cup {r}

\* number of started threads of the scan that are alive
Vivos == Cardinality({h \in Hosts : threads[h].pc \notin {"novo", "fim"}})

\* line 155: the condition under which the spawning loop sleeps 0.1 s
DeveDormir(n) == n >= MAX_VIVOS

NoThread == [pc |-> "novo", r |-> NoDesc]

\* api_escanear -> escanear_rede over a valid range: lines 130-146.  The
\* locals of the call (encontrados, lock, threads) are fresh; a request is
\* taken when no thread of the previous call is left alive.
ScanStart ==
    /\ scan_pc = "idle"
    /\ scan_n < MaxScans
    /\ Vivos = 0
    /\ scan_n' = scan_n + 1
    /\ scan_pc' = "spawn"
    /\ scan_i' = 0
    /\ scan_j' = 1
    /\ threads' = [h \in Hosts |-> NoThread]
    /\ encontrados' = <<>>
    /\ lock' = 0
    /\ retorno' = [feito |-> FALSE, lista |-> <<>>]
    /\ UNCHANGED radares_conhecidos
    /\ UNCHANGED nonScanVars

\* lines 147-156: start the thread of the next host; when 50 or more threads
\* are alive the loop sleeps 0.1 s once and then goes on
ScanSpawn ==
    /\ scan_pc = "spawn"
    /\ scan_i < Cardinality(Hosts)
    /\ LET h == scan_i + 1
       IN /\ threads' = [threads EXCEPT ![h].pc = "probe"]
          /\ scan_i' = h
          /\ scan_pc' = IF h = Cardinality(Hosts) THEN "join" ELSE "spawn"
    /\ UNCHANGED <<scan_n, scan_j, encontrados, lock, retorno, radares_conhecidos>>
    /\ UNCHANGED nonScanVars

\* lines 158-159: t.join(timeout=SCAN_TIMEOUT + 1) returns when the thread has
\* ended, or when the timeout elapses with the thread still alive
ScanJoin ==
    /\ scan_pc = "join"
    /\ \E timeout \in BOOLEAN : threads[scan_j].pc = "fim" \/ timeout
    /\ IF scan_j = Cardinality(Hosts)
       THEN scan_pc' = "ret" /\ UNCHANGED scan_j
       ELSE scan_j' = scan_j + 1 /\ UNCHANGED scan_pc
    /\ UNCHANGED <<scan_n, scan_i, threads, encontrados, lock, retorno,
                   radares_conhecidos>>
    /\ UNCHANGED nonScanVars

\* line 164: return encontrados (api_escanear serialises it at once)
ScanReturn ==
    /\ scan_pc = "ret"
    /\ retorno' = [feito |-> TRUE, lista |-> encontrados]
    /\ scan_pc' = "idle"
    /\ UNCHANGED <<scan_n, scan_i, scan_j, threads, encontrados, lock,
                   radares_conhecidos>>
    /\ UNCHANGED nonScanVars

\* checar_ip, line 134: descobrir_radar returns
Probe(h) ==
    /\ threads[h].pc = "probe"
    /\ \E resp \in Respostas :
        LET r == DescobrirRadar(h, resp)
        IN threads' = [threads EXCEPT
                         ![h] = [pc |-> IF r = NoDesc THEN "fim" ELSE "lock",
                                 r |-> r]]
    /\ UNCHANGED <<scan_pc, scan_n, scan_i, scan_j, encontrados, lock, retorno,
                   radares_conhecidos>>
    /\ UNCHANGED nonScanVars

\* checar_ip, lines 136-137: take the lock of the scan and append r
ThAppend(h) ==
    /\ threads[h].pc = "lock"
    /\ lock = 0
    /\ lock' = h
    /\ encontrados' = Append(encontrados, threads[h].r)
    /\ threads' = [threads EXCEPT ![h].pc = "reg"]
    /\ UNCHANGED <<scan_pc, scan_n, scan_i, scan_j, retorno, radares_conhecidos>>
    /\ UNCHANGED nonScanVars

\* checar_ip, lines 138-144: write the registry entry, save, release the lock
ThRegister(h) ==
    /\ threads[h].pc = "reg"
    /\ radares_conhecidos' = RegSet(radares_conhecidos, threads[h].r)
    /\ lock' = 0
    /\ threads' = [threads EXCEPT ![h].pc = "fim"]
    /\ UNCHANGED <<scan_pc, scan_n, scan_i, scan_j, encontrados, retorno>>
    /\ UNCHANGED nonScanVars

NextScan ==
    \/ ScanStart
    \/ ScanSpawn
    \/ ScanJoin
    \/ ScanReturn
    \/ \E h \in Hosts : Probe(h)
    \/ \E h \in Hosts : ThAppend(h)
    \/ \E h \in Hosts : ThRegister(h)

\* ---- escanear_rede over a range in which no address answers.  Every thread
\* gets r = None from descobrir_radar and ends without touching encontrados or
\* the registry, so the threads are interchangeable and are counted in vivos.
LoadStart ==
    /\ scan_pc = "idle"
    /\ scan_n < MaxScans
    /\ vivos = 0
    /\ scan_n' = scan_n + 1
    /\ scan_pc' = "spawn"
    /\ scan_i' = 0
    /\ scan_j' = 1
    /\ retorno' = [feito |-> FALSE, lista |-> <<>>]
    /\ UNCHANGED <<vivos, threads, encontrados, lock, radares_conhecidos>>
    /\ UNCHANGED nonLoadVars

\* lines 149-156: start one more thread, then sleep if 50 or more are alive
LoadSpawn ==
    /\ scan_pc = "spawn"
    /\ scan_i < LoadHosts
    /\ scan_i' = scan_i + 1
    /\ vivos' = vivos + 1
    /\ scan_pc' = IF DeveDormir(vivos') THEN "sleep"
                  ELSE IF scan_i' = LoadHosts THEN "join" ELSE "spawn"
    /\ UNCHANGED <<scan_n, scan_j, retorno, threads, encontrados, lock,
                   radares_conhecidos>>
    /\ UNCHANGED nonLoadVars

\* line 156: time.sleep(0.1) is over; the loop goes on whatever is alive
LoadWake ==
    /\ scan_pc = "sleep"
    /\ scan_pc' = IF scan_i = LoadHosts THEN "join" ELSE "spawn"
    /\ UNCHANGED <<scan_n, scan_i, scan_j, retorno, vivos, threads, encontrados,
                   lock, radares_conhecidos>>
    /\ UNCHANGED nonLoadVars

\* a probe ends without an answer (refused at once, or timed out): lines 134-135
LoadEnd ==
    /\ vivos > 0
    /\ vivos' = vivos - 1
    /\ UNCHANGED <<scan_pc, scan_n, scan_i, scan_j, retorno, threads, encontrados,
                   lock, radares_conhecidos>>
    /\ UNCHANGED nonLoadVars

\* lines 158-159: the join of the next thread returns (ended, or timed out)
LoadJoin ==
    /\ scan_pc = "join"
    /\ IF scan_j = LoadHosts
       THEN scan_pc' = "ret" /\ UNCHANGED scan_j
       ELSE scan_j' = scan_j + 1 /\ UNCHANGED scan_pc
    /\ UNCHANGED <<scan_n, scan_i, retorno, vivos, threads, encontrados, lock,
                   radares_conhecidos>>
    /\ UNCHANGED nonLoadVars

\* line 164
LoadReturn ==
    /\ scan_pc = "ret"
    /\ retorno' = [feito |-> TRUE, lista |-> encontrados]
    /\ scan_pc' = "idle"
    /\ UNCHANGED <<scan_n, scan_i, scan_j, vivos, threads, encontrados, lock,
                   radares_conhecidos>>
    /\ UNCHANGED nonLoadVars

NextLoad ==
    \/ LoadStart
    \/ LoadSpawn
    \/ LoadWake
    \/ LoadEnd
    \/ LoadJoin
    \/ LoadReturn

\* ---- api_configurar_todos
\* the ids of the registry, in dict order
RegIds(reg) == SelectSeq(IdOrder, LAMBDA id : \E e \in reg : e.radar_id = id)

\* lines 391-416: one enviar thread is started per registry entry.  A request
\* is taken when no thread of the previous one is left alive.
BulkStart ==
    /\ bulk_pc = "idle"
    /\ nBulk < MaxBulk
    /\ \A id \in Ids : bulk_th[id] # "call"
    /\ nBulk' = nBulk + 1
    /\ bulk_ids' = RegIds(radares_conhecidos)
    /\ bulk_th' = [id \in Ids |->
                     IF id \in Range(bulk_ids') THEN "call" ELSE "novo"]
    /\ resultados' = [id \in Ids |-> NoCode]
    /\ bulk_j' = 1
    /\ bulk_ret' = [feito |-> FALSE, mapa |-> [id \in Ids |-> NoCode]]
    /\ bulk_pc' = "join"
    /\ UNCHANGED radares_conhecidos
    /\ UNCHANGED nonBulkVars

\* enviar, lines 409-410: chamar_radar returns (an exception inside it gives
\* code 0) and the outcome is stored under the node id
Enviar(id) ==
    /\ bulk_th[id] = "call"
    /\ \E code \in BulkCodes : resultados' = [resultados EXCEPT ![id] = code]
    /\ bulk_th' = [bulk_th EXCEPT ![id] = "fim"]
    /\ UNCHANGED <<bulk_pc, bulk_ids, bulk_j, bulk_ret, nBulk, radares_conhecidos>>
    /\ UNCHANGED nonBulkVars

\* lines 417-418: t.join(timeout=6) returns when the thread has ended, or when
\* the timeout elapses with the thread still alive
BulkJoin ==
    /\ bulk_pc = "join"
    /\ bulk_j <= Len(bulk_ids)
    /\ \E timeout \in BOOLEAN : bulk_th[bulk_ids[bulk_j]] = "fim" \/ timeout
    /\ bulk_j' = bulk_j + 1
    /\ UNCHANGED <<bulk_pc, bulk_ids, bulk_th, resultados, bulk_ret, nBulk,
                   radares_conhecidos>>
    /\ UNCHANGED nonBulkVars

\* line 420: jsonify(resultados)
BulkReturn ==
    /\ bulk_pc = "join"
    /\ bulk_j > Len(bulk_ids)
    /\ bulk_ret' = [feito |-> TRUE, mapa |-> resultados]
    /\ bulk_pc' = "idle"
    /\ UNCHANGED <<bulk_ids, bulk_th, resultados, bulk_j, nBulk, radares_conhecidos>>
    /\ UNCHANGED nonBulkVars

NextBulk ==
    \/ BulkStart
    \/ \E id \in Ids : Enviar(id)
    \/ BulkJoin
    \/ BulkReturn

\* ---- loop_polling and api_radar_remover
\* the entries of the registry, in dict order
RegItems(reg) ==
    [i \in 1..Len(RegIds(reg)) |->
        CHOOSE e \in reg : e.radar_id = RegIds(reg)[i]]

AtualizarStatusRadarKeep(st, d) ==
    IF \E e \in st : e.radar_id = d.radar_id THEN st ELSE st \cup {d}
\* atualizar_status_radar: status_radares[radar_id] = {...}
AtualizarStatusRadar(st, d) == {e \in st : e.radar_id # d.radar_id} \cup {d}

\* lines 194-195: the status object of the node, with ip and online = True
StatusOnline(info, resp) ==
    [radar_id |-> info.radar_id, ip |-> info.ip, online |-> TRUE,
     radar_nome |-> resp.radar_nome]

StatusOfflineSemNome(info) ==
    [radar_id |-> info.radar_id, ip |-> info.ip, online |-> FALSE,
     radar_nome |-> ""]
\* lines 208-212: the offline status, with the name the registry holds
StatusOffline(info) ==
    [radar_id |-> info.radar_id, ip |-> info.ip, online |-> FALSE,
     radar_nome |-> info.radar_nome]

AdicionarEventoSemLimite(buf, ev) == <<ev>> \o buf
\* adicionar_evento: insert at the front, drop the last beyond 200
AdicionarEvento(buf, ev) ==
    LET b == <<ev>> \o buf
    IN IF Len(b) > EVENTOS_MAX THEN SubSeq(b, 1, Len(b) - 1) ELSE b

\* line 203-205: the uuid is among the first 50 of the buffer
Visto(buf, ev) ==
    \E i \in 1..(IF Len(buf) < DEDUP_JANELA THEN Len(buf) ELSE DEDUP_JANELA) :
        buf[i] = ev

RECURSIVE Ingerir(_, _)
\* lines 201-206, over the events still to handle
Ingerir(buf, evts) ==
    IF evts = <<>> THEN buf
    ELSE CHOOSE r \in {Ingerir(b, t) :
                         b \in {IF Visto(buf, Head(evts)) THEN buf
                                ELSE AdicionarEvento(buf, Head(evts))},
                         t \in {Tail(evts)}} : TRUE

\* evts[:5]
Pagina(evts) == SubSeq(evts, 1, IF Len(evts) < PAGINA_MAX THEN Len(evts) ELSE PAGINA_MAX)

\* line 187: a cycle starts on a snapshot of the registry
PollBegin ==
    /\ poll_pc = "sleep"
    /\ nPoll < MaxPolls
    /\ nPoll' = nPoll + 1
    /\ poll_snap' = RegItems(radares_conhecidos)
    /\ poll_k' = 1
    /\ poll_ant' = poll_res
    /\ poll_res' = [id \in Ids |-> "none"]
    /\ poll_pc' = "status"
    /\ UNCHANGED <<status_radares, eventos_recentes, rm, radares_conhecidos>>
    /\ UNCHANGED nonPollVars

\* lines 188-196 and 207-212: the status call of the next node of the snapshot
PollStatus ==
    /\ poll_pc = "status"
    /\ poll_k <= Len(poll_snap)
    /\ LET info == poll_snap[poll_k]
       IN \E resp \in StatusRespostas :
            IF resp.code = 200
            THEN /\ status_radares' =
                      AtualizarStatusRadar(status_radares, StatusOnline(info, resp))
                 /\ poll_res' = [poll_res EXCEPT ![info.radar_id] = "ok"]
                 /\ poll_pc' = "eventos"
                 /\ UNCHANGED poll_k
            ELSE /\ status_radares' =
                      AtualizarStatusRadar(status_radares, StatusOffline(info))
                 /\ poll_res' = [poll_res EXCEPT ![info.radar_id] = "falha"]
                 /\ poll_k' = poll_k + 1
                 /\ UNCHANGED poll_pc
    /\ UNCHANGED <<eventos_recentes, poll_snap, poll_ant, nPoll, rm,
                   radares_conhecidos>>
    /\ UNCHANGED nonPollVars

\* lines 199-206: the events call to a node that answered, and the ingestion
PollEventos ==
    /\ poll_pc = "eventos"
    /\ eventos_lock = ""
    /\ \E er \in EvRespostas :
          eventos_recentes' = IF er.code = 200
                              THEN Ingerir(eventos_recentes, Pagina(er.evts))
                              ELSE eventos_recentes
    /\ poll_k' = poll_k + 1
    /\ poll_pc' = "status"
    /\ UNCHANGED <<status_radares, poll_snap, poll_res, poll_ant, nPoll, rm,
                   radares_conhecidos>>
    /\ UNCHANGED nonPollVars

\* line 215: the snapshot is exhausted, the loop sleeps
PollEnd ==
    /\ poll_pc = "status"
    /\ poll_k > Len(poll_snap)
    /\ poll_pc' = "sleep"
    /\ UNCHANGED <<status_radares, eventos_recentes, poll_snap, poll_k, poll_res,
                   poll_ant, nPoll, rm, radares_conhecidos>>
    /\ UNCHANGED nonPollVars

\* api_radar_remover, lines 434-436
RemoverReg(id) ==
    /\ rm = ""
    /\ rm' = id
    /\ radares_conhecidos' = {e \in radares_conhecidos : e.radar_id # id}
    /\ UNCHANGED <<status_radares, eventos_recentes, poll_pc, poll_snap, poll_k,
                   poll_res, poll_ant, nPoll>>
    /\ UNCHANGED nonPollVars

\* api_radar_remover, lines 437-439
RemoverCache ==
    /\ rm # ""
    /\ status_radares' = {e \in status_radares : e.radar_id # rm}
    /\ rm' = ""
    /\ UNCHANGED <<eventos_recentes, poll_pc, poll_snap, poll_k, poll_res,
                   poll_ant, nPoll, radares_conhecidos>>
    /\ UNCHANGED nonPollVars

\* ---- the event feed: nodes that produce events, and the part of a poll
\* visit that fetches and ingests them
\* the uuid of the k-th event of a node
Uuid(id, k) == IF id = "r1" THEN 1000 + k ELSE k

\* api_eventos of a node: list(reversed(eventos_realtime[-20:])), as uuids
PaginaDoNo(id) ==
    [i \in 1..(IF feed[id] < NODE_PAGE THEN feed[id] ELSE NODE_PAGE) |->
        Uuid(id, feed[id] + 1 - i)]

\* a node records a detection and adds its realtime event; a node has fewer
\* than lag events the manager has not fetched yet
NodeEmit(id, max, lag) ==
    /\ feed[id] < max
    /\ feed[id] - visto[id] < lag
    /\ feed' = [feed EXCEPT ![id] = @ + 1]
    /\ UNCHANGED <<visto, eventos_recentes, streamVars>>
    /\ UNCHANGED nonFeedVars

\* lines 199-206 for a node that answers: its page is fetched and ingested;
\* adicionar_evento takes eventos_lock
FeedEventos(id) ==
    /\ \E e \in radares_conhecidos : e.radar_id = id
    /\ eventos_lock = ""
    /\ eventos_recentes' = Ingerir(eventos_recentes, Pagina(PaginaDoNo(id)))
    /\ visto' = [visto EXCEPT ![id] = feed[id]]
    /\ UNCHANGED <<feed, streamVars>>
    /\ UNCHANGED nonFeedVars

NextFeed ==
    \/ NodeEmit("r2", MaxFeed, 1)
    \/ FeedEventos("r2")

\* ---- api_stream: the generator gerar of one client
\* reversed(eventos_recentes[:n])
Novos(buf, n) == [i \in 1..n |-> buf[n + 1 - i]]

\* line 452: the client connects and the generator starts
SubAttach ==
    /\ sub_pc = "off"
    /\ sub_pc' = "lock"
    /\ ultimo_tamanho' = 0
    /\ fila' = <<>>
    /\ entregues' = <<>>
    /\ desde' = visto["r2"]
    /\ UNCHANGED <<eventos_lock, inicio, eventos_recentes, feedVars>>
    /\ UNCHANGED nonFeedVars

\* lines 454-458: the lock is taken and the length compared; with nothing new
\* the with block is left at once, else the generator stops at the first yield
\* of the for loop, inside the with block
SubLock ==
    /\ sub_pc = "lock"
    /\ eventos_lock = ""
    /\ IF Len(eventos_recentes) > ultimo_tamanho
       THEN /\ fila' = Novos(eventos_recentes, Len(eventos_recentes) - ultimo_tamanho)
            /\ eventos_lock' = "gerar"
            /\ sub_pc' = "data"
       ELSE /\ sub_pc' = "beat"
            /\ UNCHANGED <<fila, eventos_lock>>
    /\ UNCHANGED <<ultimo_tamanho, entregues, desde, inicio, eventos_recentes, feedVars>>
    /\ UNCHANGED nonFeedVars

\* lines 458-460: the client takes the data event the generator is stopped at;
\* the generator goes on to the next yield, or past the loop, where it sets
\* ultimo_tamanho and leaves the with block
SubYieldData ==
    /\ sub_pc = "data"
    /\ entregues' = Append(entregues, Head(fila))
    /\ fila' = Tail(fila)
    /\ IF Tail(fila) = <<>>
       THEN /\ ultimo_tamanho' = Len(eventos_recentes)
            /\ eventos_lock' = ""
            /\ sub_pc' = "beat"
       ELSE UNCHANGED <<ultimo_tamanho, eventos_lock, sub_pc>>
    /\ UNCHANGED <<desde, inicio, eventos_recentes, feedVars>>
    /\ UNCHANGED nonFeedVars

\* lines 463-464: the heartbeat is taken and the sleep ends
SubHeartbeat ==
    /\ sub_pc = "beat"
    /\ sub_pc' = "lock"
    /\ UNCHANGED <<eventos_lock, ultimo_tamanho, fila, entregues, desde, inicio,
                   eventos_recentes, feedVars>>
    /\ UNCHANGED nonFeedVars

\* the client disconnects: the generator is closed at the yield it is stopped
\* at, and a with block it is in is left
SubDisconnect ==
    /\ sub_pc \in {"data", "beat"}
    /\ sub_pc' = "off"
    /\ eventos_lock' = ""
    /\ fila' = <<>>
    /\ UNCHANGED <<ultimo_tamanho, entregues, desde, inicio, eventos_recentes, feedVars>>
    /\ UNCHANGED nonFeedVars

\* a node produces at most MaxNew events while the stream is observed
EmitNew ==
    /\ feed["r2"] < inicio + MaxNew
    /\ NodeEmit("r2", inicio + MaxNew, 1)

NextStream ==
    \/ EmitNew
    \/ FeedEventos("r2")
    \/ SubAttach
    \/ SubLock
    \/ SubYieldData
    \/ SubHeartbeat
    \/ SubDisconnect

\* a node that records several detections between two polls
NextOrder ==
    \/ NodeEmit("r2", MaxOrd, MaxLag)
    \/ FeedEventos("r2")

\* a quiet node next to a busy one
NextDedup ==
    \/ NodeEmit("r1", MaxQuiet, 1)
    \/ NodeEmit("r2", MaxBusy, 1)
    \/ FeedEventos("r1")
    \/ FeedEventos("r2")

NextPoll ==
    \/ PollBegin
    \/ PollStatus
    \/ PollEventos
    \/ PollEnd
    \/ \E id \in Ids : RemoverReg(id)
    \/ RemoverCache

NextSync ==
    \/ Simular
    \/ PgToggle
    \/ SyncStart
    \/ SyncConnect
    \/ SyncEnsure
    \/ SyncInsert
    \/ SyncCommit
    \/ SyncMark


InitSensor ==
    /\ now = 0
    /\ ticks = 0
    /\ sensor_a_tempo = NoTempo
    /\ sensor_lock = None
    /\ pc = [t \in Threads |-> "idle"]
    /\ loc = [t \in Threads |-> NoLoc]
    /\ ret = [t \in Threads |-> NoRet]
    /\ aTimes = <<>>
    /\ consumed = <<>>
    /\ nTrig = 0

InitStore ==
    /\ deteccoes = <<>>
    /\ eventos_realtime = <<>>

InitSync ==
    /\ pg_up = FALSE
    /\ central = <<>>
    /\ spc = "idle"
    /\ pendentes = <<>>
    /\ idx = 0
    /\ enviados = <<>>
    /\ tx = <<>>
    /\ txstate = "ok"
    /\ falhou = {}
    /\ ciclo = "none"
    /\ nCycles = 0

InitApi ==
    /\ env_file = {}
    /\ reinicio = FALSE
    /\ pedido = [rota |-> "", token |-> "", corpo |-> CorpoNenhum, code |-> 0]
    /\ nReq = 0

InitScan ==
    /\ scan_pc = "idle"
    /\ scan_n = 0
    /\ scan_i = 0
    /\ scan_j = 1
    /\ threads = [h \in Hosts |-> NoThread]
    /\ encontrados = <<>>
    /\ lock = 0
    /\ retorno = [feito |-> FALSE, lista |-> <<>>]
    /\ vivos = 0

InitBulk ==
    /\ bulk_pc = "idle"
    /\ bulk_ids = <<>>
    /\ bulk_th = [id \in Ids |-> "novo"]
    /\ resultados = [id \in Ids |-> NoCode]
    /\ bulk_j = 1
    /\ bulk_ret = [feito |-> FALSE, mapa |-> [id \in Ids |-> NoCode]]
    /\ nBulk = 0

InitPoll ==
    /\ status_radares = {}
    /\ eventos_recentes = <<>>
    /\ poll_pc = "sleep"
    /\ poll_snap = <<>>
    /\ poll_k = 1
    /\ poll_res = [id \in Ids |-> "none"]
    /\ poll_ant = [id \in Ids |-> "none"]
    /\ nPoll = 0
    /\ rm = ""

InitFeed ==
    /\ feed = [id \in Ids |-> 0]
    /\ visto = [id \in Ids |-> 0]

InitStream ==
    /\ eventos_lock = ""
    /\ sub_pc = "off"
    /\ ultimo_tamanho = 0
    /\ fila = <<>>
    /\ entregues = <<>>
    /\ desde = 0
    /\ inicio = 0

InitLocals == InitScan /\ InitBulk /\ InitPoll /\ InitFeed /\ InitStream

\* a first run: carregar_config finds no file
InitManager ==
    /\ radares_conhecidos = {}
    /\ InitLocals

InitEdge == InitSensor /\ InitStore /\ InitSync /\ InitApi

\* a later run: carregar_config loads the registry an earlier run saved
InitSaved ==
    /\ InitEdge
    /\ radares_conhecidos \in SavedRegistries
    /\ InitLocals

Init == InitEdge /\ InitManager

\* the manager with node r2 registered and n events of r2 already fetched
InitStreamStart ==
    /\ InitEdge
    /\ radares_conhecidos = {[radar_id |-> "r2", ip |-> 2, radar_nome |-> "a"]}
    /\ InitScan /\ InitBulk
    /\ vivos = 0
    /\ \E n \in Fills :
        /\ feed = [id \in Ids |-> IF id = "r2" THEN n ELSE 0]
        /\ visto = feed
        /\ inicio = n
        /\ eventos_recentes = [i \in 1..n |-> Uuid("r2", n + 1 - i)]
    /\ status_radares = {}
    /\ poll_pc = "sleep" /\ poll_snap = <<>> /\ poll_k = 1
    /\ poll_res = [id \in Ids |-> "none"]
    /\ poll_ant = [id \in Ids |-> "none"]
    /\ nPoll = 0 /\ rm = ""
    /\ eventos_lock = ""
    /\ sub_pc = "off"
    /\ ultimo_tamanho = 0
    /\ fila = <<>>
    /\ entregues = <<>>
    /\ desde = 0

NextSensor ==
    \/ Tick
    \/ \E t \in Threads : ACall(t)
    \/ \E t \in Threads : AAcquire(t)
    \/ \E t \in Threads : ASet(t)
    \/ \E t \in Threads : BCall(t)
    \/ \E t \in Threads : BAcquire(t)
    \/ \E t \in Threads : BCheck(t)
    \/ \E t \in Threads : BRead(t)
    \/ \E t \in Threads : BClear(t)
    \/ \E t \in Threads : BValidate(t)
    \/ \E t \in Threads : BSave(t)
    \/ \E t \in Threads : BEmit(t)

Spec == Init /\ [][NextSensor]_vars

SpecSync == Init /\ [][NextSync]_vars

\* a later run of the node: the table deteccoes holds the n rows of earlier
\* runs, the realtime list is empty, the central store is not reachable
InitTabela ==
    /\ InitSensor /\ InitSync /\ InitApi /\ InitManager
    /\ eventos_realtime = <<>>
    /\ \E n \in 0..MaxRows, m \in Marcas :
          deteccoes = [i \in 1..n |->
              [NovaLinha(i, [n |-> 45, d |-> 1], 0, 0)
                  EXCEPT !.sincronizado = (m # 0 /\ i = m)]]

\* the start of a cycle: the selection of the batch, and the connection
NextBatch ==
    \/ SyncStart
    \/ SyncConnect

SpecBatch == InitTabela /\ [][NextBatch]_vars

\* the edge node with its configure endpoint
NextStore ==
    \/ NextSync
    \/ \E token \in Tokens, corpo \in Corpos :
          ApiConfigurar(token, corpo) /\ UNCHANGED apiLog

SpecStore == Init /\ [][NextStore]_vars

\* the node's HTTP API next to the detections it records
NextApi ==
    \/ \E token \in Tokens, corpo \in Corpos : PedirConfigurar(token, corpo)
    \/ \E token \in Tokens : PedirReiniciar(token)
    \/ \E token \in Tokens, rota \in {"status", "eventos", "deteccoes"} :
          PedirLeitura(rota, token)
    \/ \E token \in Tokens : PedirPing(token)
    \/ Simular

SpecApi == Init /\ [][NextApi]_vars

SpecScan == Init /\ [][NextScan]_vars

SpecLoad == Init /\ [][NextLoad]_vars

SpecBulk == InitSaved /\ [][NextBulk]_vars

SpecPoll == InitSaved /\ [][NextPoll]_vars

SpecFeed == InitSaved /\ [][NextFeed]_vars

SpecDedup == InitSaved /\ [][NextDedup]_vars

SpecOrder == InitSaved /\ [][NextOrder]_vars

SpecStream == InitStreamStart /\ [][NextStream]_vars

\* the polling thread keeps running, and the generator runs as long as its
\* client takes what it yields
SpecStreamFair ==
    /\ SpecStream
    /\ WF_vars(FeedEventos("r2"))
    /\ WF_vars(SubLock)
    /\ WF_vars(SubYieldData)
    /\ WF_vars(SubHeartbeat)

\* ------------------------------------------------------------ sensor claims
Moved(t, at) == pc[t] = at /\ pc'[t] # at
\* the exact speed for an interval of dt ms is 36 * SENSOR_DIST_MM / (10 * dt) km/h
ExactOver(dt, k) == 36 * SENSOR_DIST_MM > k * 10 * dt
EventRow(e) == deteccoes[e.uuid]

\* C1: whatever the interleaving of the callbacks, an A trigger is read by at
\* most one B trigger, and no two detection rows stem from the same A trigger.
C1_OneAOneB ==
    /\ \A i, j \in 1..Len(consumed) : i # j => consumed[i] # consumed[j]
    /\ \A i, j \in 1..Len(deteccoes) : i # j => deteccoes[i].a # deteccoes[j].a
    /\ Len(deteccoes) <= Len(aTimes)

\* C1 witness: one A armed the slot, one B has read it inside the lock while a
\* second B callback is already waiting for the lock.
C1_Witness ==
    \E t, u \in Threads :
        /\ t # u
        /\ pc[t] = "b_clear"
        /\ pc[u] = "b_wait"
        /\ Len(aTimes) = 1

\* C2 as stated: every B trigger that measures 0 < dt <= 10 s goes on to store a
\* measurement, of speed 3600/dt km/h.
C2_Original ==
    [][\A t \in Threads :
        (Moved(t, "b_valid") /\ loc[t].delta > 0 /\ loc[t].delta <= MAX_DELTA_MS)
        => /\ pc'[t] = "b_save"
           /\ loc'[t].vel.n * loc[t].delta = 3600 * loc'[t].vel.d]_vars

\* C2 amended: a B trigger that measures 0 < dt <= 10 s and a speed of at most
\* 200 km/h (dt >= 18 ms) goes on to store the speed 3600/dt km/h; every stored
\* row carries exactly that speed and every event that speed rounded to 1/100.
C2_SpeedInv ==
    /\ \A t \in Threads : pc[t] \in {"b_save", "b_emit"} =>
        loc[t].vel.n * loc[t].delta = 3600 * loc[t].vel.d
    /\ \A i \in 1..Len(deteccoes) :
        deteccoes[i].velocidade.n * deteccoes[i].dt = 3600 * deteccoes[i].velocidade.d
    /\ \A i \in 1..Len(eventos_realtime) :
        LET e == eventos_realtime[i]
            d == 2 * (360000 - e.velocidade * EventRow(e).dt)
        IN d <= EventRow(e).dt /\ -d <= EventRow(e).dt
\* C2 (amended), with the steps that produce the row: the B trigger hands
\* 3600/dt km/h to the store, and a successful write appends a row of that speed.
C2_Speed ==
    /\ []C2_SpeedInv
    /\ [][\A t \in Threads :
            (Moved(t, "b_valid") /\ loc[t].delta > 0 /\ loc[t].delta <= MAX_DELTA_MS
                /\ ~ExactOver(loc[t].delta, MAX_KMH))
            => /\ pc'[t] = "b_save"
               /\ loc'[t].vel.n * loc[t].delta = 3600 * loc'[t].vel.d]_vars
    /\ [][\A t \in Threads :
            (Moved(t, "b_save") /\ pc'[t] = "b_emit")
            => /\ deteccoes' = Append(deteccoes, deteccoes'[Len(deteccoes')])
               /\ deteccoes'[Len(deteccoes')].velocidade = loc[t].vel]_vars

\* C2 witness: a measurement of 180 ms was stored and emitted as 20.00 km/h.
C2_Witness ==
    \E i \in 1..Len(eventos_realtime) :
        /\ EventRow(eventos_realtime[i]).dt = 180
        /\ eventos_realtime[i].velocidade = 2000

\* C3: a B trigger that finds the slot empty returns normally and changes
\* neither the rows, nor the realtime buffer, nor the slot.
C3_IdleNoop ==
    [][\A t \in Threads :
        (Moved(t, "b_check") /\ sensor_a_tempo = NoTempo)
        => /\ pc'[t] = "idle"
           /\ ret'[t].res = "ok"
           /\ UNCHANGED <<deteccoes, eventos_realtime, sensor_a_tempo>>]_vars

\* C3 witness: a B callback returned after finding the slot empty.
C3_Witness == \E t \in Threads : ret[t].why = "idle"

\* C4: the interval a B trigger computes is measured from the most recent A.
C4_LastA ==
    [][\A t \in Threads :
        (Moved(t, "b_read") /\ pc'[t] = "b_clear")
        => /\ Len(aTimes) > 0
           /\ loc'[t].delta = now - aTimes[Len(aTimes)]
           /\ loc'[t].a = Len(aTimes)]_vars

\* C4 witness: two A triggers at different times, then a B that read the second.
C4_Witness ==
    \E t \in Threads :
        /\ pc[t] = "b_valid"
        /\ Len(aTimes) = 2
        /\ aTimes[1] # aTimes[2]
        /\ consumed = <<2>>
        /\ loc[t].delta = now - aTimes[2]

\* C5: a B callback that found the slot armed leaves it empty when it returns,
\* whatever the outcome.
C5_ClearedOnReturn ==
    [][\A t \in Threads :
        (pc[t] \in {"b_read", "b_clear", "b_valid", "b_save", "b_emit"}
            /\ pc'[t] = "idle")
        => sensor_a_tempo' = NoTempo]_vars

\* C5 witness: the local write of a B callback failed, and the next B callback,
\* which entered the lock after it, finds the slot empty.
C5_Witness ==
    \E t, u \in Threads :
        /\ ret[t].why = "sqlite"
        /\ pc[u] = "b_check"
        /\ consumed = <<1>>
        /\ Len(aTimes) = 1
        /\ sensor_a_tempo = NoTempo

\* C6: an interval <= 0 or > 10 s, or a speed above 200 km/h, makes the B
\* callback return normally without storing a row or emitting an event; no row
\* and no event ever carries such an interval or speed.
C6_DiscardInv ==
    /\ \A i \in 1..Len(deteccoes) :
        /\ deteccoes[i].dt > 0
        /\ deteccoes[i].dt <= MAX_DELTA_MS
        /\ ~ExactOver(deteccoes[i].dt, MAX_KMH)
    /\ \A i \in 1..Len(eventos_realtime) :
        eventos_realtime[i].uuid \in 1..Len(deteccoes)
\* C6, with the step that discards: the callback returns normally and leaves
\* the rows and the realtime buffer as they were.
C6_Discard ==
    /\ []C6_DiscardInv
    /\ [][\A t \in Threads :
            (Moved(t, "b_valid")
                /\ (\/ loc[t].delta <= 0
                    \/ loc[t].delta > MAX_DELTA_MS
                    \/ ExactOver(loc[t].delta, MAX_KMH)))
            => /\ pc'[t] = "idle"
               /\ ret'[t].res = "ok"
               /\ UNCHANGED <<deteccoes, eventos_realtime>>]_vars

\* C6 witness: a reading of 17 ms (211.8 km/h) was discarded.
C6_Witness ==
    \E t \in Threads :
        /\ ret[t].why = "velocidade"
        /\ deteccoes = <<>>
        /\ eventos_realtime = <<>>

\* C7: the over-limit flag of a row, and of its event, is true exactly when the
\* speed is strictly greater than the limit.
C7_StrictOver ==
    /\ \A i \in 1..Len(deteccoes) :
        deteccoes[i].acima_limite <=> ExactOver(deteccoes[i].dt, SPEED_LIMIT)
    /\ \A i \in 1..Len(eventos_realtime) :
        eventos_realtime[i].acima_limite
            <=> ExactOver(EventRow(eventos_realtime[i]).dt, SPEED_LIMIT)

\* C7 witness: 180 ms is exactly 20 km/h: stored and emitted as not over-limit.
C7_Witness ==
    \E i \in 1..Len(eventos_realtime) :
        /\ EventRow(eventos_realtime[i]).dt = 180
        /\ ~eventos_realtime[i].acima_limite
        /\ ~EventRow(eventos_realtime[i]).acima_limite

\* -------------------------------------------------------------- sync claims
Synced == {deteccoes[i].uuid : i \in {j \in 1..Len(deteccoes) : deteccoes[j].sincronizado}}
Batch == {pendentes[i].uuid : i \in 1..Len(pendentes)}

\* C8: every detection whose local synchronized flag is true has a row with
\* the same id in the central store.
C8_SyncedImpliesCentral == \A u \in Synced : u \in Range(central)

\* C9: the central store holds at most one row per detection id.
C9_OneRowPerId == \A i, j \in 1..Len(central) : i # j => central[i] # central[j]

\* C9 witness: the loop has just re-pushed, without exception, an id that was
\* already committed centrally and is still unsynchronized locally.
C9_Witness ==
    /\ spc = "loop"
    /\ idx > 1
    /\ pendentes[idx - 1].uuid \in Range(central)
    /\ pendentes[idx - 1].uuid \in Range(enviados)
    /\ pendentes[idx - 1].uuid \notin Synced

\* C10: when a cycle runs to its end, every record of its batch whose own
\* insert did not fail is in the central store and synchronized, and every
\* record whose own insert failed stays unsynchronized.
C10_FailureDoesNotAbortBatch ==
    [][(spc = "mark" /\ ciclo' = "completo") =>
        /\ \A u \in Batch \ falhou : u \in Range(central') /\ deteccoes'[u].sincronizado
        /\ \A u \in falhou : ~deteccoes'[u].sincronizado]_vars
\* ------------------------------------------------------------- store claims
\* C11: the synchronized flag of a row starts false and is only ever raised:
\* every step (append, any step of a sync cycle, ended or failed, a configure
\* request) keeps the rows that exist, keeps a raised flag raised, changes no
\* other field of an existing row, and adds rows with the flag not raised.
C11_FlagMonotone ==
    [][/\ Len(deteccoes') >= Len(deteccoes)
       /\ \A i \in 1..Len(deteccoes) :
            /\ deteccoes[i].sincronizado => deteccoes'[i].sincronizado
            /\ [deteccoes'[i] EXCEPT !.sincronizado = deteccoes[i].sincronizado]
                   = deteccoes[i]
       /\ \A i \in (Len(deteccoes) + 1)..Len(deteccoes') :
            ~deteccoes'[i].sincronizado]_vars

\* a raised flag has survived a later failed cycle, an append and a configure
C11_Witness ==
    /\ Len(deteccoes) >= 2
    /\ deteccoes[1].sincronizado
    /\ ~deteccoes[Len(deteccoes)].sincronizado
    /\ ciclo = "erro"
    /\ env_file # {}

\* C12: while the central store is unconfigured or unreachable, every step,
\* and so every sync cycle however many there are, leaves each existing local
\* row as it was; a cycle ends at the connection attempt and writes nothing
\* centrally; a new measurement can still be appended and every row is
\* returned by the detections query; and status always reports as pending
\* exactly the rows that are not synchronized.
C12_Inv ==
    /\ ApiStatus.pendentes_sync = Len(deteccoes) - Cardinality(Synced)
    /\ ApiStatus.total_deteccoes = Len(deteccoes)
    /\ Range(ApiDeteccoes(REALTIME_MAX)) = Range(deteccoes)
    /\ (~pg_up /\ spc = "idle" /\ Len(deteccoes) < MaxDet) => ENABLED Simular

C12_Step ==
    (~pg_up /\ ~pg_up') =>
        /\ \A i \in 1..Len(deteccoes) :
              Len(deteccoes') >= i /\ deteccoes'[i] = deteccoes[i]
        /\ central' = central
        /\ (spc = "connect" /\ spc' # spc) => (spc' = "idle" /\ ciclo' = "sem_pg")
        /\ spc' \in {"idle", "connect"}

C12_StoreDown == []C12_Inv /\ [][C12_Step]_vars

\* two cycles have run against the unreachable store and both rows are pending
C12_Witness ==
    /\ ~pg_up
    /\ central = <<>>
    /\ nCycles >= 2
    /\ ciclo = "sem_pg"
    /\ Len(deteccoes) >= 2
    /\ ApiStatus.pendentes_sync = Len(deteccoes)
    /\ ~ApiStatus.postgresql_conectado

\* C13: a cycle selects every unsynchronized row (when they are no more than
\* one batch), and a cycle that completes with no failed insert leaves every
\* row it selected synchronized and present centrally: detections that piled
\* up while the store was down are all synchronized by one successful cycle.
C13_Step ==
    /\ (spc = "idle" /\ spc' = "connect"
           /\ Len(deteccoes) - Cardinality(Synced) <= BATCH_LIMIT)
         => Batch' = {deteccoes[i].uuid : i \in 1..Len(deteccoes)} \ Synced
    /\ (spc = "mark" /\ ciclo' = "completo" /\ falhou = {})
         => \A u \in Batch :
               /\ u \in Range(central')
               /\ \E i \in 1..Len(deteccoes') :
                     deteccoes'[i].uuid = u /\ deteccoes'[i].sincronizado

C13_OneCycleCatchesUp == [][C13_Step]_vars

\* two rows, pending through an earlier cycle, were both synchronized by the
\* second cycle, which completed
C13_Witness ==
    /\ ciclo = "completo"
    /\ nCycles = 2
    /\ pg_up
    /\ Len(deteccoes) = 2
    /\ Synced = {1, 2}
    /\ Range(central) = {1, 2}
    /\ ApiStatus.pendentes_sync = 0

\* -------------------------------------------------------------- scan claims
\* the hosts of the range whose probe was answered with 200 and servico "radar"
Responderam == {h \in Hosts : threads[h].r # NoDesc}

\* C14: once the scan has returned, the list it returned holds exactly one
\* descriptor for each host whose probe was answered with 200 and the tag
\* "radar", and nothing else.
C14_ExactHosts ==
    retorno.feito =>
        /\ \A h \in Responderam :
              Cardinality({i \in 1..Len(retorno.lista) :
                              retorno.lista[i] = threads[h].r}) = 1
        /\ \A i \in 1..Len(retorno.lista) :
              \E h \in Responderam : retorno.lista[i] = threads[h].r

\* C16: once the scan has returned, every probe thread of it has ended, and
\* the result list is the one that was returned.
C16_NoOutstanding ==
    retorno.feito =>
        /\ \A h \in Hosts : threads[h].pc = "fim"
        /\ encontrados = retorno.lista

\* C17: the registry holds one entry per node id; a host found by a scan and
\* registered has an entry under its id; and a registration replaces the
\* entry of that id by the address and name just found and leaves the
\* entries of all other ids as they were.
C17_Inv ==
    /\ \A e1, e2 \in radares_conhecidos : e1.radar_id = e2.radar_id => e1 = e2
    /\ \A h \in Hosts :
          (threads[h].pc = "fim" /\ threads[h].r # NoDesc)
             => \E e \in radares_conhecidos : e.radar_id = threads[h].r.radar_id

C17_Step ==
    \A h \in Hosts :
        (threads[h].pc = "reg" /\ threads'[h].pc = "fim") =>
            LET r == threads[h].r
            IN /\ \E e \in radares_conhecidos' :
                     e.radar_id = r.radar_id /\ e.ip = h
                        /\ e.radar_nome = r.radar_nome
               /\ {e \in radares_conhecidos' : e.radar_id # r.radar_id}
                     = {e \in radares_conhecidos : e.radar_id # r.radar_id}

C17_RegisterIdempotent == []C17_Inv /\ [][C17_Step]_vars

\* the second scan found r1, registered at address 1 by the first scan, at
\* address 2 under a new name; the entry of r2 is as the first scan left it
C17_Witness ==
    /\ scan_n = 2
    /\ threads[1].pc = "fim" /\ threads[1].r.radar_id = "r2"
    /\ threads[2].pc = "fim" /\ threads[2].r.radar_id = "r1"
    /\ radares_conhecidos = {[ip |-> 2, radar_id |-> "r1", radar_nome |-> "b"],
                             [ip |-> 1, radar_id |-> "r2", radar_nome |-> "a"]}

\* C15: during a scan the number of probe threads that were started and have
\* not ended never exceeds 50.
C15_BoundedInFlight == vivos <= MAX_VIVOS

\* ------------------------------------------------------------ fleet claims
\* C18: the map a bulk configure returns has an outcome for every node id it
\* was sent to, whatever the nodes answer and however slow they are; and when
\* exactly one node is unreachable (code 0) and the others accept (200), the
\* map returned holds those outcomes.
C18_AllOutcomes ==
    bulk_ret.feito =>
        /\ {id \in Ids : bulk_ret.mapa[id] # NoCode} = Range(bulk_ids)
        /\ ( /\ \A id \in Range(bulk_ids) : resultados[id] \in {0, 200}
             /\ Cardinality({id \in Range(bulk_ids) : resultados[id] = 0}) = 1 )
           => bulk_ret.mapa = resultados

Registrado(id) == \E e \in radares_conhecidos : e.radar_id = id

\* C19: when a poll cycle has ended, every node of its snapshot that is still
\* registered has a cached status whose online flag is the outcome of that
\* cycle's status probe for it (true for a 200 answer, false otherwise),
\* whatever the earlier outcomes and the outcomes of the other nodes.
C19_OnlineIsLastProbe ==
    (poll_pc = "sleep" /\ nPoll > 0) =>
        \A i \in 1..Len(poll_snap) :
            LET id == poll_snap[i].radar_id
            IN Registrado(id) =>
                  /\ poll_res[id] # "none"
                  /\ \E e \in status_radares :
                        e.radar_id = id /\ e.online = (poll_res[id] = "ok")

\* r1 failed in the cycle before and answered in this one, r2 the reverse
C19_Witness ==
    /\ poll_pc = "sleep"
    /\ poll_ant["r1"] = "falha" /\ poll_res["r1"] = "ok"
    /\ poll_ant["r2"] = "ok" /\ poll_res["r2"] = "falha"
    /\ \E e \in status_radares : e.radar_id = "r1" /\ e.online
    /\ \E e \in status_radares : e.radar_id = "r2" /\ ~e.online
    /\ Registrado("r1") /\ Registrado("r2")

\* C20: a registry entry goes away (or changes) only in the step of the
\* remove operation for its id; a failed status probe leaves the registry as
\* it is and leaves a cached status for the node that is offline and carries
\* the address and the name of its registry entry.
C20_Step ==
    /\ \A e \in radares_conhecidos :
          e \notin radares_conhecidos' => (rm = "" /\ rm' = e.radar_id)
    /\ \A id \in Ids :
          (poll_res[id] # "falha" /\ poll_res'[id] = "falha") =>
              /\ radares_conhecidos' = radares_conhecidos
              /\ \E e \in status_radares' :
                    /\ e.radar_id = id
                    /\ ~e.online
                    /\ e.ip = poll_snap[poll_k].ip
                    /\ e.radar_nome = poll_snap[poll_k].radar_nome
                    /\ e.radar_nome # ""

MinOf(S) == CHOOSE x \in S : \A y \in S : x <= y

\* C21: the live buffer never holds more than 200 events; and an append to a
\* full buffer removes exactly one entry, the one appended longest ago (the
\* events of the node carry their sequence number as uuid), and keeps 200.
C21_Inv == Len(eventos_recentes) <= EVENTOS_MAX

C21_Step ==
    (Len(eventos_recentes) = EVENTOS_MAX /\ eventos_recentes' # eventos_recentes) =>
        /\ Len(eventos_recentes') = EVENTOS_MAX
        /\ Range(eventos_recentes) \ Range(eventos_recentes')
              = {MinOf(Range(eventos_recentes))}
        /\ Cardinality(Range(eventos_recentes') \ Range(eventos_recentes)) = 1

C21_Capacity == []C21_Inv /\ [][C21_Step]_vars

\* 201 events were appended: the buffer holds the 200 newest, event 1 is gone
C21_Witness ==
    /\ Len(eventos_recentes) = EVENTOS_MAX
    /\ visto["r2"] > EVENTOS_MAX
    /\ eventos_recentes[1] = visto["r2"]
    /\ eventos_recentes[EVENTOS_MAX] = visto["r2"] - EVENTOS_MAX + 1
    /\ 1 \notin Range(eventos_recentes)

\* C22: the live buffer never holds two events with the same uuid.
C22_NoDuplicates ==
    \A i, j \in 1..Len(eventos_recentes) :
        i # j => eventos_recentes[i] # eventos_recentes[j]

\* ------------------------------------------------------------ stream claims
\* every event appended since the client attached was sent to it
CaughtUp ==
    \A k \in (desde + 1)..visto["r2"] : Uuid("r2", k) \in Range(entregues)

\* C23: a client that stays attached is eventually sent every event appended
\* after it attached.
C23_Delivered == (sub_pc # "off") ~> (sub_pc = "off" \/ CaughtUp)

\* C24: the data events sent to a client are events appended after it attached.
C24_OnlyNew ==
    \A i \in 1..Len(entregues) : entregues[i] > Uuid("r2", desde)

\* C25: while the generator is stopped at the yield of a data event,
\* eventos_lock is free, so adicionar_evento can take it.
C25_LockFree == sub_pc = "data" => eventos_lock = ""

\* --------------------------------------------------------------- API claims
Autenticadas == {"status", "eventos", "deteccoes", "configurar", "reiniciar"}

\* C26: a request to status, eventos, deteccoes, configurar or reiniciar whose
\* token is not the node's token is answered 401 and changes nothing: the
\* configuration file, the restart thread and the table are as before.  A
\* request to ping is served whatever the token.
C26_Step ==
    nReq' # nReq =>
        /\ (pedido'.rota \in Autenticadas /\ pedido'.token # API_TOKEN) =>
              /\ pedido'.code = 401
              /\ env_file' = env_file
              /\ reinicio' = reinicio
              /\ UNCHANGED <<sensorVars, storeVars, syncVars, mgrVars>>
        /\ pedido'.rota = "ping" => pedido'.code = 200

C26_Unauthorized == [][C26_Step]_vars

\* a well-formed configure request and a restart request were both refused
C26_Witness ==
    /\ pedido.rota = "reiniciar"
    /\ pedido.token = "errado"
    /\ pedido.code = 401
    /\ nReq >= 2
    /\ ~reinicio
    /\ env_file = {}

\* C27: a configure request with the token whose body is absent, null, empty
\* or not an object is answered with a 4xx code and leaves the file as it was.
Malformado(corpo) == corpo.vazio \/ corpo.tipo # "objeto"

C27_Step ==
    (nReq' # nReq /\ pedido'.rota = "configurar" /\ pedido'.token = API_TOKEN
        /\ Malformado(pedido'.corpo)) =>
        /\ pedido'.code \in 400..499
        /\ env_file' = env_file

C27_Malformed == [][C27_Step]_vars

\* C28: an accepted configure request changes the configuration file and
\* nothing else; the requests that follow are still authenticated against the
\* token the process started with, and the events of the measurements that
\* follow still carry the limit the process started with.
C28_Step ==
    nReq' # nReq =>
        /\ (pedido'.rota = "configurar" /\ pedido'.code = 200) =>
              /\ reinicio' = reinicio
              /\ UNCHANGED <<sensorVars, storeVars, syncVars, mgrVars>>
        /\ pedido'.rota \in Autenticadas =>
              (pedido'.code = 401 <=> pedido'.token # RunningEnv.api_token)

C28_RunningLimit ==
    \A i \in 1..Len(eventos_realtime) :
        /\ eventos_realtime[i].limite = SPEED_LIMIT
        /\ eventos_realtime[i].acima_limite
              <=> (eventos_realtime[i].velocidade > 100 * SPEED_LIMIT)

C28_NotLive == []C28_RunningLimit /\ [][C28_Step]_vars

\* the file holds another token, the last request was served with the token
\* of the running process, and a measurement was recorded
C28_Witness ==
    /\ <<"api_token", "novo">> \in env_file
    /\ pedido.rota = "status"
    /\ pedido.token = RunningEnv.api_token
    /\ pedido.code = 200
    /\ Len(eventos_realtime) >= 1

\* ------------------------------------------------------ write-failure claim
\* C29: when salvar_deteccao raises in callback_sensor_b, the callback ends
\* with that exception, no row and no realtime event are added, and
\* sensor_lock is released.  Every realtime event belongs to a stored row,
\* and the lock is held only by a thread inside a callback.
C29_Step ==
    \A t \in Threads :
        (pc[t] = "b_save" /\ pc'[t] = "idle") =>
            /\ ret'[t] = [res |-> "raise", why |-> "sqlite"]
            /\ deteccoes' = deteccoes
            /\ eventos_realtime' = eventos_realtime
            /\ sensor_lock' = None

C29_Inv ==
    /\ \A i \in 1..Len(eventos_realtime) :
          \E j \in 1..Len(deteccoes) : deteccoes[j].uuid = eventos_realtime[i].uuid
    /\ \A t \in Threads :
          sensor_lock = t => pc[t] \notin {"idle", "a_wait", "b_wait"}

C29_WriteFailure == []C29_Inv /\ [][C29_Step]_vars

\* the write of the first measurement failed, and the A trigger that came
\* after it was handled: the slot holds its time
C29_Witness ==
    /\ \E t \in Threads : pc[t] = "idle" /\ ret[t] = [res |-> "raise", why |-> "sqlite"]
    /\ consumed = <<1>>
    /\ Len(aTimes) = 2
    /\ sensor_a_tempo # NoTempo
    /\ sensor_lock = None
    /\ deteccoes = <<>>
    /\ eventos_realtime = <<>>

\* ------------------------------------------------------- sync batch claim
\* C30: a row's flag turns true only in the marking step of a cycle, and only
\* for a row of the batch that cycle selected at its start; a row appended
\* meanwhile is stored unsynchronized and leaves the other rows and the
\* selected batch as they were.
C30_Step ==
    /\ \A i \in 1..Len(deteccoes) :
          (~deteccoes[i].sincronizado /\ deteccoes'[i].sincronizado) =>
              (spc = "mark" /\ deteccoes[i].uuid \in Batch)
    /\ Len(deteccoes') > Len(deteccoes) =>
          /\ SubSeq(deteccoes', 1, Len(deteccoes)) = deteccoes
          /\ ~deteccoes'[Len(deteccoes')].sincronizado
          /\ pendentes' = pendentes

C30_OnlyBatch == [][C30_Step]_vars

\* the first cycle marked row 1 and left row 2, which was not in its batch;
\* the second cycle has pushed row 2 and is about to mark it
C30_Witness ==
    /\ nCycles = 2
    /\ spc = "mark"
    /\ Len(deteccoes) = 2
    /\ deteccoes[1].sincronizado
    /\ ~deteccoes[2].sincronizado
    /\ Batch = {deteccoes[2].uuid}
    /\ enviados = <<deteccoes[2].uuid>>

\* ------------------------------------------------------ batch selection claim
\* the position in the table of the row with uuid u
PosDe(u) == CHOOSE i \in 1..Len(deteccoes) : deteccoes[i].uuid = u

\* C31: the batch of a cycle holds at most 100 rows, all unsynchronized rows
\* of the table, in insertion order, and every unsynchronized row older than
\* a row of the batch is in the batch too.
C31_OldestFirst ==
    spc # "idle" =>
        /\ Len(pendentes) <= 100
        /\ \A k \in 1..Len(pendentes) :
              /\ \E i \in 1..Len(deteccoes) :
                    deteccoes[i] = pendentes[k] /\ ~deteccoes[i].sincronizado
              /\ \A j \in 1..(k - 1) :
                    PosDe(pendentes[j].uuid) < PosDe(pendentes[k].uuid)
              /\ \A i \in 1..(PosDe(pendentes[k].uuid) - 1) :
                    ~deteccoes[i].sincronizado => deteccoes[i].uuid \in Batch

\* 102 rows, the second synchronized: the batch is rows 1 and 3..101, and
\* row 102 waits
C31_Witness ==
    /\ spc = "connect"
    /\ Len(deteccoes) = 102
    /\ deteccoes[2].sincronizado
    /\ Len(pendentes) = 100
    /\ pendentes[1].uuid = 1
    /\ pendentes[100].uuid = 101
    /\ 102 \notin Batch

\* ------------------------------------------------------------ order claim
\* C32: the events of a node are appended to the live buffer in the order
\* the node created them: the buffer, whose front is the last event appended,
\* holds them newest first.
C32_CreationOrder ==
    \A i \in 1..(Len(eventos_recentes) - 1) :
        eventos_recentes[i] > eventos_recentes[i + 1]

\* ---------------------------------------------------- accumulation claim
\* C33: an accepted configure request leaves the persisted line of every key
\* its body does not mention as an earlier request wrote it.
C33_Step ==
    (nReq' # nReq /\ pedido'.rota = "configurar" /\ pedido'.code = 200) =>
        \A l \in env_file :
            l[1] \notin DOMAIN pedido'.corpo.dados => l \in env_file'

C33_Accumulates == [][C33_Step]_vars

\* ------------------------------------------------------------ removal claim
\* C34: the status cache holds entries only for nodes that are registered or
\* whose removal is still running; once api_radar_remover has returned, the
\* node it removed has no entry.
C34_NoEntryAfterRemove ==
    \A e \in status_radares :
        \/ \E r \in radares_conhecidos : r.radar_id = e.radar_id
        \/ rm = e.radar_id

====
